---------------------------- MODULE Spec2Model ----------------------------
(***************************************************************************)
(* Model of src/users_contribution_activity.py: the request layer          *)
(* (run_query), the six paginated feed collectors, the activity merge in   *)
(* main and the report written by save_to_csv.                             *)
(*                                                                         *)
(* Three specifications share the definitions:                             *)
(*   SpecRQ / SpecRQFair  one invocation of run_query, one loop iteration  *)
(*                        per step, against an arbitrary server;           *)
(*   Spec                 main: every feed, one page request per step.     *)
(***************************************************************************)
EXTENDS Integers, Sequences, FiniteSets, TLC

VARIABLES
    \* ---- run_query (one invocation) ----
    rq_pc,          \* "loop" | "done" | "raised"
    max_attempts,   \* the max_attempts argument
    attempt,        \* the loop variable of `for attempt in range(max_attempts)`
    rq_result,      \* the returned value ("unset" until it returns)
    rq_served,      \* what the server answered to each SESSION.post so far
    rq_waits,       \* the durations of the time.sleep calls so far
    \* ---- main ----
    pc,                 \* the call main is in, "done" or "crashed"
    orgIdx,             \* position of `for org in ORG_NAMES`
    all_users,          \* main's all_users
    repos,              \* main's repos
    repoIdx,            \* position of `for repo in repos`
    all_repo_activity,  \* main's all_repo_activity
    branches,           \* main's branches
    branchIdx,          \* position of `for branch in branches`
    repo_activity,      \* main's repo_activity
    ret,                \* what the collector that ran last returned
    csv,                \* the file save_to_csv wrote for this organization
    crash,              \* the exception that ended main, or "none"
    \* ---- the collector being run ----
    c_users,            \* users of get_all_org_members
    c_names,            \* repos of get_all_repos, branches of get_branches
    user_activity,      \* user_activity of the three activity collectors
    cursor,             \* cursor
    \* ---- bookkeeping of what the server did (not program state) ----
    page,               \* requests the running collector has made
    feedLog,            \* the latest collector call: the feed, the shape
                        \* of the last answer, and what the pages it took in
                        \* held (logins, names, attributed records per login)
    served,             \* what the server has supplied in the run so far
    supplied,           \* per category and login: attributed records served
                        \* for the current repository, and their latest date
    reports,            \* the organizations a file was written for
    drained,            \* the feeds main has drained: of the organization
                        \* (org) and of the current repository (repo)
    \* ---- later, applied on its own ----
    lt                  \* the arguments and the values later gave for them

rqvars == <<rq_pc, max_attempts, attempt, rq_result, rq_served, rq_waits>>

mainvars ==
    <<pc, orgIdx, all_users, repos, repoIdx, all_repo_activity, branches,
      branchIdx, repo_activity, ret, csv, crash>>

feedvars == <<c_users, c_names, user_activity, cursor>>

logvars == <<page, feedLog, served, supplied, reports, drained>>

purevars == <<lt>>

vars == <<rqvars, mainvars, feedvars, logvars, purevars>>

-----------------------------------------------------------------------------
(* Values                                                                  *)

\* Logins are strings; a login is modelled as the tuple of its characters'
\* codes, so that sorted() has the strings' own order to work with:
\* "ab" < "b" although it is the longer one.
Logins == {<<1, 2>>, <<2>>}

RepoNames == {"r1", "r2"}

\* The organization's repositories as the server has them: the source
\* repositories and a fork.
ForkNames == {"f1"}

OrgRepositories ==
    [name : RepoNames, isFork : {FALSE}] \cup [name : ForkNames, isFork : {TRUE}]

\* A faulty variant of the repositories query: no isFork argument.
REPOS_QUERY_unfiltered == "unset"

\* The isFork argument of the repositories query, line 115.
REPOS_QUERY_isFork == "false"

\* The names of the repositories the server lists for the query's isFork
\* argument: all of them when the query has none.
RepositoriesListed(isFork) ==
    {r.name : r \in {x \in OrgRepositories :
                        isFork = "unset" \/ x.isFork = (isFork = "true")}}

BranchNames == {"main", "dev"}

\* ORG_NAMES, line 13.
ORG_NAMES == <<"o1", "o2">>

\* A timestamp is the API's ISO-8601 UTC string "YYYY-MM-DDT00:00:00Z"; all
\* have the same width and zone, so Python's string order on them is the
\* order of the day numbers that stand for them here. NoTs is None.
NoTs == 0
Timestamps == {1, 2}

\* Opaque cursors the server hands out; NoCursor is None.
NoCursor == "None"
Cursors == {"c1", "c2"}

\* An activity record as served: author is "user" (attributed, with login
\* and ts), "nouser" (an author object with no user / no login) or "null"
\* (author: null).
AttributedItems == [author : {"user"}, login : Logins, ts : Timestamps]
UnattributedItems == [author : {"nouser", "null"}, login : {<<>>}, ts : {1}]
ActivityItems == AttributedItems \cup UnattributedItems

\* Bounds of the server's behaviour in one run.
MaxPages == 2
MaxServed == 3

\* The number of items a page can hold.
PageSizes == {0, 1, 2}

SeqsOfSizes(S, sizes) == UNION {[1..k -> S] : k \in sizes}

Range(s) == {s[i] : i \in 1..Len(s)}

NoDuplicates(s) == Cardinality(Range(s)) = Len(s)

Min(a, b) == IF a <= b THEN a ELSE b

Max(a, b) == IF a >= b THEN a ELSE b

\* A faulty variant of later: the second timestamp wins.
laterTakesSecond(ts1, ts2) == IF ts2 = NoTs THEN ts1 ELSE ts2

\* later, lines 78-81.
later(ts1, ts2) ==
    IF ts1 = NoTs THEN ts2
    ELSE IF ts2 = NoTs THEN ts1
    ELSE Max(ts1, ts2)

\* A dict as a function; d with d[k] = v.
DictSet(d, k, v) == [x \in DOMAIN d \cup {k} |-> IF x = k THEN v ELSE d[x]]

EmptyDict == [x \in {} |-> 0]

\* A set of logins as ret holds it: the function that is TRUE on them.
SetAsDict(S) == [x \in S |-> TRUE]

-----------------------------------------------------------------------------
(* run_query, lines 38-76                                                  *)

\* Python's None as a returned value of run_query.
None == "None"

\* The default of the max_attempts parameter.
DEFAULT_MAX_ATTEMPTS == 3

\* Seconds slept after an HTTP 403.
COOLDOWN == 60

\* Base of both backoff formulas, 5 * (attempt + 1) and 5 * (2 ** attempt).
BACKOFF_BASE == 5

\* What one SESSION.post can give the call site:
\*   ok          status 200, a JSON body with a non-null "data"
\*   ok_null     status 200, a JSON body whose "data" is null
\*   ok_nokey    status 200, a JSON body without "data"  (KeyError)
\*   ok_badjson  status 200, a body that is no JSON      (JSONDecodeError)
\*   s403        status 403
\*   other       any other status (what the adapter's own retries end with)
\*   conn        requests.exceptions.ConnectionError
\*   timeout     requests.exceptions.Timeout
\*   reqexc      any other exception raised by SESSION.post
Outcomes ==
    {"ok", "ok_null", "ok_nokey", "ok_badjson", "s403", "other",
     "conn", "timeout", "reqexc"}

Pow2(n) == IF n = 0 THEN 1 ELSE IF n = 1 THEN 2 ELSE IF n = 2 THEN 4 ELSE 8

NoEffect == [ctl |-> "next", val |-> None, sleep |-> 0, exc |-> "none"]

\* The body of the try block (lines 42-60) for one answer of the server:
\* ctl is "return" (with val), "next" (continue: the for loop takes the next
\* attempt) or "raise" (with the exception class exc).
TryBody(a, m, o) ==
    CASE o = "ok"         -> [NoEffect EXCEPT !.ctl = "return", !.val = "DATA"]
      [] o = "ok_null"    -> [NoEffect EXCEPT !.ctl = "return", !.val = None]
      [] o = "ok_nokey"   -> [NoEffect EXCEPT !.ctl = "raise", !.exc = "KeyError"]
      [] o = "ok_badjson" -> [NoEffect EXCEPT !.ctl = "raise", !.exc = "JSONDecodeError"]
      [] o = "s403"       -> [NoEffect EXCEPT !.sleep = COOLDOWN]
      [] o = "other"      ->
            IF a < m - 1
            THEN [NoEffect EXCEPT !.sleep = BACKOFF_BASE * (a + 1)]
            ELSE [NoEffect EXCEPT !.ctl = "raise", !.exc = "Exception"]
      [] o = "conn"       -> [NoEffect EXCEPT !.ctl = "raise", !.exc = "ConnectionError"]
      [] o = "timeout"    -> [NoEffect EXCEPT !.ctl = "raise", !.exc = "Timeout"]
      [] o = "reqexc"     -> [NoEffect EXCEPT !.ctl = "raise", !.exc = "RequestException"]

\* A handler that lets everything but the two network errors through.
ExceptClauseNetworkOnly(exc) ==
    IF exc \in {"ConnectionError", "Timeout"} THEN "network" ELSE "uncaught"

\* Which except clause takes an exception raised in the try block: the first
\* names ConnectionError and Timeout, the second every Exception.
ExceptClause(exc) ==
    IF exc \in {"ConnectionError", "Timeout"} THEN "network" ELSE "generic"

\* except (ConnectionError, Timeout), lines 61-69.
NetworkHandler(a, m) ==
    IF a < m - 1
    THEN [NoEffect EXCEPT !.sleep = BACKOFF_BASE * Pow2(a)]
    ELSE [NoEffect EXCEPT !.ctl = "return", !.val = None]

\* except Exception, lines 70-75.
GenericHandler(a, m) ==
    IF a < m - 1
    THEN [NoEffect EXCEPT !.sleep = BACKOFF_BASE * (a + 1)]
    ELSE [NoEffect EXCEPT !.ctl = "return", !.val = None]

\* One iteration of the for loop: the try block and, when it raises, the
\* except clause that takes the exception.
Iteration(a, m, o) ==
    LET b == TryBody(a, m, o) IN
    IF b.ctl # "raise" THEN b
    ELSE CASE ExceptClause(b.exc) = "network" -> NetworkHandler(a, m)
           [] ExceptClause(b.exc) = "generic" -> GenericHandler(a, m)
           [] OTHER -> b

\* The mutated loop step: a 403 repeats the same attempt.
NextAttemptSameOn403(a, o) == IF o = "s403" THEN a ELSE a + 1

\* The attempt the for loop takes after an iteration that neither returned
\* nor raised: range(max_attempts) hands out the next index, whatever the
\* iteration did (`continue` included).
NextAttempt(a, o) == a + 1

Categories == {"commits", "issues", "prs"}

NothingTallied == [l \in Logins |-> [n |-> 0, last |-> NoTs]]

NothingSupplied == [c \in Categories |-> NothingTallied]

\* No collector has run: no request, no answer, nothing taken in.
NoFeed ==
    [feed |-> "none", shape |-> "none",
     users |-> {}, names |-> <<>>, activity |-> NothingTallied,
     hasNext |-> FALSE, endCursor |-> NoCursor, slept |-> 0]

\* No feed drained yet, in the organization and in the repository.
NoDrained == [org |-> <<>>, repo |-> <<>>]

\* later has not been called on its own.
LaterIdle ==
    [pc |-> "idle", a |-> NoTs, b |-> NoTs, c |-> NoTs, ab |-> NoTs,
     ba |-> NoTs, bc |-> NoTs, ab_c |-> NoTs, a_bc |-> NoTs]

\* main has not started.
MainIdle ==
    /\ pc = "idle" /\ orgIdx = 0 /\ all_users = {} /\ repos = <<>>
    /\ repoIdx = 0 /\ all_repo_activity = <<>> /\ branches = <<>>
    /\ branchIdx = 0 /\ repo_activity = <<>> /\ ret = <<>> /\ csv = <<>>
    /\ crash = "none" /\ c_users = {} /\ c_names = <<>>
    /\ user_activity = <<>> /\ cursor = NoCursor /\ page = 0
    /\ feedLog = NoFeed /\ served = 0 /\ supplied = NothingSupplied
    /\ drained = NoDrained
    /\ reports = <<>>

RQInit ==
    /\ MainIdle
    /\ lt = LaterIdle
    /\ rq_pc = "loop"
    /\ max_attempts \in 0..DEFAULT_MAX_ATTEMPTS
    /\ attempt = 0
    /\ rq_result = "unset"
    /\ rq_served = <<>>
    /\ rq_waits = <<>>

\* One pass through the loop body: one SESSION.post and what follows it.
RQAttempt ==
    /\ rq_pc = "loop"
    /\ attempt < max_attempts
    /\ \E o \in Outcomes :
         LET r == Iteration(attempt, max_attempts, o) IN
         /\ rq_served' = Append(rq_served, o)
         /\ rq_waits' = IF r.sleep > 0 THEN Append(rq_waits, r.sleep) ELSE rq_waits
         /\ CASE r.ctl = "return" ->
                   /\ rq_pc' = "done"
                   /\ rq_result' = r.val
                   /\ attempt' = attempt
              [] r.ctl = "raise" ->
                   /\ rq_pc' = "raised"
                   /\ rq_result' = r.exc
                   /\ attempt' = attempt
              [] OTHER ->
                   /\ rq_pc' = "loop"
                   /\ rq_result' = rq_result
                   /\ attempt' = NextAttempt(attempt, o)
    /\ UNCHANGED <<max_attempts, mainvars, feedvars, logvars, purevars>>

\* The loop ran out of attempts without returning: line 76.
RQExhausted ==
    /\ rq_pc = "loop"
    /\ attempt >= max_attempts
    /\ rq_pc' = "done"
    /\ rq_result' = None
    /\ UNCHANGED <<max_attempts, attempt, rq_served, rq_waits>>
    /\ UNCHANGED <<mainvars, feedvars, logvars, purevars>>

RQNext == RQAttempt \/ RQExhausted

SpecRQ == RQInit /\ [][RQNext]_vars

SpecRQFair == SpecRQ /\ WF_vars(RQNext)

-----------------------------------------------------------------------------
(* run_query as one call: what main's collectors get back                  *)

\* run_query from attempt a on, after n requests, against a server that
\* answers script[n + 1] to request n + 1: "DATA", None, or "RAISE" when an
\* exception leaves the function ("PENDING": the script is too short to tell).
RECURSIVE RunQueryFrom(_, _, _, _)
RunQueryFrom(a, n, m, script) ==
    IF a >= m THEN None
    ELSE IF n >= Len(script) THEN "PENDING"
    ELSE LET o == script[n + 1]
             r == Iteration(a, m, o)
         IN  CASE r.ctl = "return" -> r.val
               [] r.ctl = "raise"  -> "RAISE"
               [] OTHER -> RunQueryFrom(NextAttempt(a, o), n + 1, m, script)

run_query(script) == RunQueryFrom(0, 0, DEFAULT_MAX_ATTEMPTS, script)

\* Every way the server can answer the requests of one call.
ServerScripts == [1..DEFAULT_MAX_ATTEMPTS -> Outcomes]

\* What a call of run_query(query, variables) can hand to a collector.
RunQueryResults == {run_query(s) : s \in ServerScripts} \ {"PENDING"}

-----------------------------------------------------------------------------
(* One loop iteration of each collector                                    *)

\* What run_query handed to a collector, as the collector looks at it:
\*   shape "None"       run_query returned None
\*         "missing"    a dict without the top-level key
\*         "null"       the top-level key (organization / repository) is null
\*         "noref"      repository.ref is null          (commits only)
\*         "notarget"   repository.ref.target is null   (commits only)
\*         "nohistory"  the target has no history       (commits only)
\*         "full"       the whole path is there: nodes, pageInfo
NoneResponse ==
    [shape |-> "None", nodes |-> <<>>, hasNextPage |-> FALSE, endCursor |-> NoCursor]

\* RATE_DELAY, line 18: the seconds slept between two pages.
RATE_DELAY == 3

\* What a pass of a collector's loop ends in: break, the next pass (after
\* time.sleep(RATE_DELAY)) or an exception; sleep is the time slept in it.
StepBreak(acc, cur) ==
    [ctl |-> "break", acc |-> acc, cursor |-> cur, why |-> "none", sleep |-> 0]

\* A faulty variant of the next pass: no sleep before it.
StepLoopNoSleep(acc, cur) ==
    [ctl |-> "loop", acc |-> acc, cursor |-> cur, why |-> "none", sleep |-> 0]

StepLoop(acc, cur) ==
    [ctl |-> "loop", acc |-> acc, cursor |-> cur, why |-> "none",
     sleep |-> RATE_DELAY]

StepRaise(acc, cur, why) ==
    [ctl |-> "raise", acc |-> acc, cursor |-> cur, why |-> why, sleep |-> 0]

\* A faulty variant of the end of the loop body: the cursor is not advanced.
NextPageKeepsCursor(acc, cur, res) ==
    IF ~res.hasNextPage THEN StepBreak(acc, cur)
    ELSE StepLoop(acc, cur)

\* A faulty variant of the end of the loop body: a collector stops after its
\* first page, whatever hasNextPage says.
NextPageCapped(acc, cur, res) == StepBreak(acc, cur)

\* The end of every collector's loop body: break on the last page, else take
\* the page's endCursor and go round again (after time.sleep(RATE_DELAY)).
NextPage(acc, cur, res) ==
    IF ~res.hasNextPage THEN StepBreak(acc, cur)
    ELSE StepLoop(acc, res.endCursor)

\* get_all_org_members, lines 97-106.
get_all_org_members_body(users, cur, res) ==
    IF res.shape \in {"None", "missing"} THEN StepBreak(users, cur)
    ELSE IF res.shape = "null" THEN StepRaise(users, cur, "TypeError: null organization")
    ELSE NextPage(users \cup Range(res.nodes), cur, res)

\* get_all_repos, lines 123-132.
get_all_repos_body(rs, cur, res) ==
    IF res.shape \in {"None", "missing"} THEN StepBreak(rs, cur)
    ELSE IF res.shape = "null" THEN StepRaise(rs, cur, "TypeError: null organization")
    ELSE NextPage(rs \o res.nodes, cur, res)

\* get_branches, lines 149-158.
get_branches_body(bs, cur, res) ==
    IF res.shape \in {"None", "missing", "null"} THEN StepBreak(bs, cur)
    ELSE NextPage(bs \o res.nodes, cur, res)

\* A faulty variant of the return of get_branches: no fallback.
get_branches_return_plain(bs) == bs

\* get_branches, line 159: branches or ["main"].
get_branches_return(bs) == IF bs = <<>> THEN <<"main">> ELSE bs

\* A faulty variant of the counting: a user's first record is not counted.
count_record_skips_first(ua, login, ts) ==
    IF login \notin DOMAIN ua
    THEN DictSet(ua, login, [n |-> 0, last |-> ts])
    ELSE DictSet(ua, login,
                 [n    |-> ua[login].n + 1,
                  last |-> later(ua[login].last, ts)])

\* Lines 211-214 (and 247-250, 283-286): the user's entry is created on the
\* first record, then the counter goes up and the timestamp moves on.
count_record(ua, login, ts) ==
    LET u1 == IF login \in DOMAIN ua THEN ua
              ELSE DictSet(ua, login, [n |-> 0, last |-> ts])
    IN  DictSet(u1, login, [n    |-> u1[login].n + 1,
                            last |-> later(u1[login].last, ts)])

\* The for loop over history.edges, lines 206-214, from edge i on: ok is
\* FALSE when edge["node"]["author"]["user"] raised on a null author.
RECURSIVE commit_edges(_, _, _)
commit_edges(ua, edges, i) ==
    IF i > Len(edges) THEN [ua |-> ua, ok |-> TRUE]
    ELSE LET e == edges[i] IN
         IF e.author = "null" THEN [ua |-> ua, ok |-> FALSE]
         ELSE IF e.author = "nouser" THEN commit_edges(ua, edges, i + 1)
         ELSE commit_edges(count_record(ua, e.login, e.ts), edges, i + 1)

\* The for loop over issues.nodes, lines 242-250, from node i on.
RECURSIVE issue_nodes(_, _, _)
issue_nodes(ua, nodes, i) ==
    IF i > Len(nodes) THEN ua
    ELSE LET e == nodes[i] IN
         IF e.author # "user" THEN issue_nodes(ua, nodes, i + 1)
         ELSE issue_nodes(count_record(ua, e.login, e.ts), nodes, i + 1)

\* The for loop over prs.nodes, lines 278-286, from node i on.
RECURSIVE pr_nodes(_, _, _)
pr_nodes(ua, nodes, i) ==
    IF i > Len(nodes) THEN ua
    ELSE LET e == nodes[i] IN
         IF e.author # "user" THEN pr_nodes(ua, nodes, i + 1)
         ELSE pr_nodes(count_record(ua, e.login, e.ts), nodes, i + 1)

\* A faulty variant of get_commit_activity: a failed request drops the records of
\* the pages before it.
get_commit_activity_drops_on_failure(ua, cur, res) ==
    IF res.shape = "None" THEN StepBreak(EmptyDict, cur)
    ELSE IF res.shape \in {"missing", "null", "noref", "notarget", "nohistory"}
    THEN StepBreak(ua, cur)
    ELSE LET c == commit_edges(ua, res.nodes, 1) IN
         IF ~c.ok THEN StepRaise(c.ua, cur, "TypeError: null author")
         ELSE NextPage(c.ua, cur, res)

\* get_commit_activity, lines 193-218.
get_commit_activity_body(ua, cur, res) ==
    IF res.shape \in {"None", "missing", "null"} THEN StepBreak(ua, cur)
    ELSE IF res.shape \in {"noref", "notarget"} THEN StepBreak(ua, cur)
    ELSE IF res.shape = "nohistory" THEN StepBreak(ua, cur)
    ELSE LET c == commit_edges(ua, res.nodes, 1) IN
         IF ~c.ok THEN StepRaise(c.ua, cur, "TypeError: null author")
         ELSE NextPage(c.ua, cur, res)

\* get_issue_activity, lines 237-254.
get_issue_activity_body(ua, cur, res) ==
    IF res.shape \in {"None", "missing"} THEN StepBreak(ua, cur)
    ELSE IF res.shape = "null" THEN StepRaise(ua, cur, "TypeError: null repository")
    ELSE NextPage(issue_nodes(ua, res.nodes, 1), cur, res)

\* get_pr_activity, lines 273-290.
get_pr_activity_body(ua, cur, res) ==
    IF res.shape \in {"None", "missing"} THEN StepBreak(ua, cur)
    ELSE IF res.shape = "null" THEN StepRaise(ua, cur, "TypeError: null repository")
    ELSE NextPage(pr_nodes(ua, res.nodes, 1), cur, res)

-----------------------------------------------------------------------------
(* The merges of main                                                      *)

\* Lines 341-342 (349-350, 357-358): the summary a user starts with.
NewSummary ==
    [commits |-> 0, issues |-> 0, prs |-> 0,
     last_commit |-> NoTs, last_issue |-> NoTs, last_pr |-> NoTs]

Summary(ra, user) ==
    IF user \in DOMAIN ra THEN ra[user] ELSE NewSummary

\* A faulty variant of the commit merge: the branch's count replaces the sum.
merge_commits_overwrites(ra, commits) ==
    [user \in DOMAIN ra \cup DOMAIN commits |->
        IF user \notin DOMAIN commits THEN ra[user]
        ELSE [Summary(ra, user) EXCEPT
                !.commits = commits[user].n,
                !.last_commit = later(@, commits[user].last)]]

\* for user, data in commits.items(), lines 339-344.
merge_commits(ra, commits) ==
    [user \in DOMAIN ra \cup DOMAIN commits |->
        IF user \notin DOMAIN commits THEN ra[user]
        ELSE [Summary(ra, user) EXCEPT
                !.commits = @ + commits[user].n,
                !.last_commit = later(@, commits[user].last)]]

\* A faulty variant of the issue merge: the user's summary is made anew.
merge_issues_replaces_summary(ra, issues) ==
    [user \in DOMAIN ra \cup DOMAIN issues |->
        IF user \notin DOMAIN issues THEN ra[user]
        ELSE [NewSummary EXCEPT
                !.issues = issues[user].n,
                !.last_issue = issues[user].last]]

\* for user, data in issues.items(), lines 347-352.
merge_issues(ra, issues) ==
    [user \in DOMAIN ra \cup DOMAIN issues |->
        IF user \notin DOMAIN issues THEN ra[user]
        ELSE [Summary(ra, user) EXCEPT
                !.issues = @ + issues[user].n,
                !.last_issue = later(@, issues[user].last)]]

\* for user, data in prs.items(), lines 355-360.
merge_prs(ra, prs) ==
    [user \in DOMAIN ra \cup DOMAIN prs |->
        IF user \notin DOMAIN prs THEN ra[user]
        ELSE [Summary(ra, user) EXCEPT
                !.prs = @ + prs[user].n,
                !.last_pr = later(@, prs[user].last)]]

\* all_repo_activity is a dict and keeps the order its keys came in: it is
\* modelled as the sequence of its items. Line 362.
set_repo_activity(ara, repo, ra) ==
    IF \E i \in 1..Len(ara) : ara[i].repo = repo
    THEN [i \in 1..Len(ara) |->
            IF ara[i].repo = repo
            THEN [repo |-> repo, activity |-> ra]
            ELSE ara[i]]
    ELSE Append(ara, [repo |-> repo, activity |-> ra])

-----------------------------------------------------------------------------
(* save_to_csv                                                             *)

\* DAYS_INACTIVE_THRESHOLD's default, line 14.
THRESHOLD_DAYS == 60

\* The "N/A" written for a user with no activity, line 317.
NA == -1

\* Python's order on strings, on the tuples of character codes.
RECURSIVE LexLessFrom(_, _, _)
LexLessFrom(a, b, i) ==
    IF i > Len(a) THEN i <= Len(b)
    ELSE IF i > Len(b) THEN FALSE
    ELSE IF a[i] < b[i] THEN TRUE
    ELSE IF a[i] > b[i] THEN FALSE
    ELSE LexLessFrom(a, b, i + 1)

LexLess(a, b) == LexLessFrom(a, b, 1)

\* A faulty variant of sorted: shorter logins first.
RECURSIVE sortedByLength(_)
sortedByLength(S) ==
    IF S = {} THEN <<>>
    ELSE LET m == CHOOSE x \in S : \A y \in S \ {x} :
                     Len(x) < Len(y) \/ (Len(x) = Len(y) /\ LexLess(x, y))
         IN  <<m>> \o sortedByLength(S \ {m})

\* sorted(all_users), line 303.
RECURSIVE sorted(_)
sorted(S) ==
    IF S = {} THEN <<>>
    ELSE LET m == CHOOSE x \in S : \A y \in S \ {x} : LexLess(x, y)
         IN  <<m>> \o sorted(S \ {m})

\* Instants are counted in half days, so that now need not be a midnight.
\* datetime.fromisoformat(ts.replace("Z", "+00:00")): midnight UTC of the day.
fromisoformat(ts) == 2 * ts

\* timedelta(days=d).
timedelta(d) == 2 * d

\* A faulty variant of the comparison: the cutoff itself counts as inactive.
statusStrict(last_activity, cutoff) ==
    IF last_activity # NoTs
    THEN (IF fromisoformat(last_activity) > cutoff THEN "Active" ELSE "Inactive")
    ELSE "Inactive"

\* Lines 313-318.
status(last_activity, cutoff) ==
    IF last_activity # NoTs
    THEN (IF fromisoformat(last_activity) >= cutoff THEN "Active" ELSE "Inactive")
    ELSE "Inactive"

\* activity.get(user, {}) and the data.get(...) calls, lines 304-310.
csv_data(activity, user) ==
    IF user \in DOMAIN activity THEN activity[user] ELSE NewSummary

\* The row written for one user, lines 304-320.
csv_row(activity, user, cutoff) ==
    LET data == csv_data(activity, user)
        last_activity == later(later(data.last_commit, data.last_issue), data.last_pr)
    IN  [user          |-> user,
         commits       |-> data.commits,
         issues        |-> data.issues,
         prs           |-> data.prs,
         last_activity |-> IF last_activity # NoTs THEN last_activity ELSE NA,
         status        |-> status(last_activity, cutoff)]

\* A faulty variant of the row loop: only the users with activity get a row.
csv_users_active_only(activity, members) == sorted(members \cap DOMAIN activity)

\* A faulty variant of the row loop: the users with activity get a row too.
csv_users_with_contributors(activity, members) ==
    sorted(members \cup DOMAIN activity)

\* for user in sorted(all_users), line 303.
csv_users(activity, members) == sorted(members)

\* save_to_csv, lines 296-321: one section per repository of repo_data, in
\* the dict's order, each with one row per user the loop visits.
save_to_csv(repo_data, members, now) ==
    LET cutoff == now - timedelta(THRESHOLD_DAYS) IN
    [i \in 1..Len(repo_data) |->
        LET users == csv_users(repo_data[i].activity, members) IN
        [repo |-> repo_data[i].repo,
         rows |-> [j \in 1..Len(users) |->
                      csv_row(repo_data[i].activity, users[j], cutoff)]]]

\* The instants save_to_csv can run at: the cutoff falls on, between and
\* after the days of the timestamps.
NowInstants ==
    {timedelta(THRESHOLD_DAYS) + fromisoformat(d) + h : d \in Timestamps, h \in {0, 1}}

-----------------------------------------------------------------------------
(* What the server can answer to a collector's request                     *)

\* The server says hasNextPage at most MaxPages - 1 times in a row.
HasNextChoices(pg) == IF pg + 1 < MaxPages THEN {TRUE, FALSE} ELSE {FALSE}

\* The endCursor of a page: a last page has a cursor too, one the server
\* gives to no other page, so that its use in a request would show.
LastCursor == "c9"

EndCursors(h) == IF h THEN Cursors ELSE {LastCursor}

FullPages(nodeSets, pg) ==
    UNION {{[shape |-> "full", nodes |-> ns, hasNextPage |-> h, endCursor |-> c] :
              ns \in nodeSets, c \in EndCursors(h)} : h \in HasNextChoices(pg)}

BadPages(shapes) ==
    {[shape |-> sh, nodes |-> <<>>, hasNextPage |-> FALSE, endCursor |-> NoCursor] :
        sh \in shapes}

\* Every result of run_query, as a response: None, the payloads of a 200,
\* and "RAISE" should run_query let an exception out.
Responses(shapes, nodeSets, pg) ==
    (IF None \in RunQueryResults THEN {NoneResponse} ELSE {})
      \cup (IF "DATA" \in RunQueryResults
            THEN BadPages(shapes) \cup FullPages(nodeSets, pg) ELSE {})
      \cup (IF "RAISE" \in RunQueryResults THEN BadPages({"RAISE"}) ELSE {})

\* What a page of nodes adds to served: its items, but for the first
\* repository of an organization and the first branch of a repository.
Cost(feed, sofar, nodes) ==
    IF feed \in {"repos", "branches"} /\ sofar = <<>> /\ nodes # <<>>
    THEN Len(nodes) - 1
    ELSE Len(nodes)

\* The pages of items of S the server can still serve: at most MaxServed
\* items in a run. Repository names are unique in
\* an organization, branch names in a repository: the server repeats none.
Nodes(feed, S, sofar) ==
    {ns \in SeqsOfSizes(S, PageSizes) :
        /\ Cost(feed, sofar, ns) <= MaxServed - served
        /\ feed \in {"repos", "branches"} => NoDuplicates(sofar \o ns)}

\* t with the attributed records of nodes added: per login, how many there
\* are and the latest of their dates.
TallyInto(t, nodes) ==
    [l \in Logins |->
        LET mine == {i \in 1..Len(nodes) :
                       nodes[i].author = "user" /\ nodes[i].login = l}
            dates == {nodes[i].ts : i \in mine} \cup {t[l].last}
        IN  [n    |-> t[l].n + Cardinality(mine),
             last |-> CHOOSE d \in dates : \A e \in dates : e <= d]]

\* feedLog after the running collector got res for feed f: a collector's
\* first request starts a new log; what a page holds is logged when the
\* answer has the whole path.
Logged(f, res) ==
    LET old == IF page = 0 THEN [NoFeed EXCEPT !.feed = f] ELSE feedLog
        full == res.shape = "full"
    IN  [feed     |-> f,
         shape    |-> res.shape,
         users    |-> IF full /\ f = "members"
                      THEN old.users \cup Range(res.nodes) ELSE old.users,
         names    |-> IF full /\ f \in {"repos", "branches"}
                      THEN old.names \o res.nodes ELSE old.names,
         activity |-> IF full /\ f \in Categories
                      THEN TallyInto(old.activity, res.nodes) ELSE old.activity,
         hasNext   |-> full /\ res.hasNextPage,
         endCursor |-> IF full THEN res.endCursor ELSE NoCursor,
         slept     |-> 0]

\* supplied after the attributed records of nodes came in for category c.
Tally(c, nodes) == [supplied EXCEPT ![c] = TallyInto(supplied[c], nodes)]

\* A collector's step on res; a run_query that raised takes the collector
\* (and main) down with it.
Step(res, acc, r) ==
    IF res.shape = "RAISE" THEN StepRaise(acc, cursor, "run_query raised") ELSE r

-----------------------------------------------------------------------------
(* main, lines 324-364: one request of the running collector per step      *)

RQIdle ==
    /\ rq_pc = "idle" /\ max_attempts = DEFAULT_MAX_ATTEMPTS /\ attempt = 0
    /\ rq_result = "unset" /\ rq_served = <<>> /\ rq_waits = <<>>

Init ==
    /\ RQIdle
    /\ pc = "get_all_org_members" /\ orgIdx = 1 /\ all_users = {}
    /\ repos = <<>> /\ repoIdx = 0 /\ all_repo_activity = <<>>
    /\ branches = <<>> /\ branchIdx = 0 /\ repo_activity = EmptyDict
    /\ ret = EmptyDict /\ csv = <<>> /\ crash = "none"
    /\ c_users = {} /\ c_names = <<>> /\ user_activity = EmptyDict
    /\ cursor = NoCursor /\ page = 0
    /\ feedLog = NoFeed /\ served = 0 /\ supplied = NothingSupplied
    /\ drained = NoDrained
    /\ reports = <<>>
    /\ lt = LaterIdle

\* An exception nobody catches ends main: the process is gone, the files
\* it wrote stay.
Crash(why) ==
    /\ pc' = "crashed"
    /\ crash' = why
    /\ orgIdx' = 0 /\ all_users' = {} /\ repos' = <<>> /\ repoIdx' = 0
    /\ all_repo_activity' = <<>> /\ branches' = <<>> /\ branchIdx' = 0
    /\ repo_activity' = EmptyDict /\ ret' = EmptyDict /\ csv' = <<>>
    /\ c_users' = {} /\ c_names' = <<>> /\ user_activity' = EmptyDict
    /\ cursor' = NoCursor /\ page' = 0
    /\ served' = 0 /\ supplied' = NothingSupplied
    /\ drained' = NoDrained
    /\ UNCHANGED reports

\* One pass of a collector's loop for the answer res: r is what the loop
\* body makes of it, with the collector's accumulator in r.acc; on break the
\* collector returns (ret) to the line of main named by back.
CollectorStep(feed, res, r, back) ==
    /\ CASE r.ctl = "raise" ->
              /\ Crash(r.why)
              /\ feedLog' = [NoFeed EXCEPT !.feed = feed, !.shape = res.shape]
         [] r.ctl = "loop" ->
              /\ cursor' = r.cursor /\ page' = page + 1
              /\ c_users' = IF feed = "members" THEN r.acc ELSE c_users
              /\ c_names' = IF feed \in {"repos", "branches"} THEN r.acc ELSE c_names
              /\ user_activity' = IF feed \in Categories THEN r.acc ELSE user_activity
              /\ feedLog' = [Logged(feed, res) EXCEPT !.slept = r.sleep]
              /\ served' = served + Cost(feed, c_names, res.nodes)
              /\ supplied' = IF feed \in Categories THEN Tally(feed, res.nodes) ELSE supplied
              /\ UNCHANGED <<mainvars, reports, drained>>
         [] OTHER ->
              /\ pc' = back
              /\ ret' = IF feed = "members" THEN SetAsDict(r.acc) ELSE r.acc
              /\ c_users' = {} /\ c_names' = <<>> /\ user_activity' = EmptyDict
              /\ cursor' = NoCursor /\ page' = 0
              /\ feedLog' = [Logged(feed, res) EXCEPT !.slept = r.sleep]
              /\ served' = served + Cost(feed, c_names, res.nodes)
              /\ supplied' = IF feed \in Categories THEN Tally(feed, res.nodes) ELSE supplied
              /\ UNCHANGED <<orgIdx, all_users, repos, repoIdx, all_repo_activity,
                             branches, branchIdx, repo_activity, csv, crash>>
              /\ UNCHANGED <<reports, drained>>
    /\ UNCHANGED <<rqvars, purevars>>

\* get_all_org_members(org), called on line 327: one pass of its loop.
get_all_org_members ==
    /\ pc = "get_all_org_members"
    /\ \E res \in Responses({"missing", "null"}, Nodes("members", Logins, <<>>), page) :
         CollectorStep("members", res,
                       Step(res, c_users, get_all_org_members_body(c_users, cursor, res)),
                       "main_327")

\* Line 327: all_users = the set returned.
assign_all_users ==
    /\ pc = "main_327"
    /\ pc' = "get_all_repos"
    /\ all_users' = DOMAIN ret
    /\ ret' = EmptyDict
    /\ feedLog' = NoFeed
    /\ UNCHANGED <<orgIdx, repos, repoIdx, all_repo_activity, branches,
                   branchIdx, repo_activity, csv, crash>>
    /\ UNCHANGED <<purevars, rqvars, feedvars, page, served, supplied, reports>>
    /\ drained' = [drained EXCEPT !.org = Append(@, <<"members">>)]

\* get_all_repos(org), called on line 328: one pass of its loop.
get_all_repos ==
    /\ pc = "get_all_repos"
    /\ \E res \in Responses({"missing", "null"}, Nodes("repos", RepositoriesListed(REPOS_QUERY_isFork), c_names), page) :
         CollectorStep("repos", res,
                       Step(res, c_names, get_all_repos_body(c_names, cursor, res)),
                       "main_328")

\* Lines 328-331: repos = the list returned, all_repo_activity = {}, and the
\* repository loop takes its first repository, if there is one.
assign_repos ==
    /\ pc = "main_328"
    /\ repos' = ret
    /\ all_repo_activity' = <<>>
    /\ repoIdx' = 1
    /\ pc' = IF ret = <<>> THEN "save_to_csv" ELSE "get_branches"
    /\ ret' = EmptyDict
    /\ feedLog' = NoFeed
    /\ UNCHANGED <<orgIdx, all_users, branches, branchIdx, repo_activity, csv, crash>>
    /\ UNCHANGED <<purevars, rqvars, feedvars, page, served, supplied, reports>>
    /\ drained' = [drained EXCEPT !.org = Append(@, <<"repos">>)]

\* get_branches(org, repo), called on line 333: one pass of its loop; it
\* returns branches or ["main"].
get_branches ==
    /\ pc = "get_branches"
    /\ \E res \in Responses({"missing", "null"}, Nodes("branches", BranchNames, c_names), page) :
         LET r == Step(res, c_names, get_branches_body(c_names, cursor, res)) IN
         CollectorStep("branches", res,
                       IF r.ctl = "break"
                       THEN [r EXCEPT !.acc = get_branches_return(r.acc)] ELSE r,
                       "main_333")

\* Lines 333-336: branches = the list returned, repo_activity = {}, and the
\* branch loop takes its first branch.
assign_branches ==
    /\ pc = "main_333"
    /\ branches' = ret
    /\ repo_activity' = EmptyDict
    /\ branchIdx' = 1
    /\ pc' = IF ret = <<>> THEN "get_issue_activity" ELSE "get_commit_activity"
    /\ ret' = EmptyDict
    /\ feedLog' = NoFeed
    /\ supplied' = NothingSupplied
    /\ UNCHANGED <<orgIdx, all_users, repos, repoIdx, all_repo_activity, csv, crash>>
    /\ UNCHANGED <<purevars, rqvars, feedvars, page, served, reports>>
    /\ drained' = [drained EXCEPT !.repo = Append(@, <<"branches">>)]

\* get_commit_activity(org, repo, branch), called on line 338: one pass of
\* its loop.
get_commit_activity ==
    /\ pc = "get_commit_activity"
    /\ \E res \in Responses({"missing", "null", "noref", "notarget", "nohistory"},
                            Nodes("commits", ActivityItems, <<>>), page) :
         CollectorStep("commits", res,
                       Step(res, user_activity,
                            get_commit_activity_body(user_activity, cursor, res)),
                       "main_339")

\* A faulty variant of the branch loop: it ends after its first branch.
merge_commits_first_branch_only ==
    /\ pc = "main_339"
    /\ repo_activity' = merge_commits(repo_activity, ret)
    /\ ret' = EmptyDict
    /\ feedLog' = NoFeed
    /\ branchIdx' = branchIdx /\ pc' = "get_issue_activity"
    /\ UNCHANGED <<orgIdx, all_users, repos, repoIdx, all_repo_activity,
                   branches, csv, crash>>
    /\ UNCHANGED <<purevars, rqvars, feedvars, page, served, supplied, reports>>
    /\ drained' = [drained EXCEPT !.repo = Append(@, <<"commits", branches[branchIdx]>>)]

\* Lines 339-344, and the branch loop's next turn.
merge_commits_into_repo ==
    /\ pc = "main_339"
    /\ repo_activity' = merge_commits(repo_activity, ret)
    /\ ret' = EmptyDict
    /\ feedLog' = NoFeed
    /\ IF branchIdx < Len(branches)
       THEN branchIdx' = branchIdx + 1 /\ pc' = "get_commit_activity"
       ELSE branchIdx' = branchIdx /\ pc' = "get_issue_activity"
    /\ UNCHANGED <<orgIdx, all_users, repos, repoIdx, all_repo_activity,
                   branches, csv, crash>>
    /\ UNCHANGED <<purevars, rqvars, feedvars, page, served, supplied, reports>>
    /\ drained' = [drained EXCEPT !.repo = Append(@, <<"commits", branches[branchIdx]>>)]

\* get_issue_activity(org, repo), called on line 346: one pass of its loop.
get_issue_activity ==
    /\ pc = "get_issue_activity"
    /\ \E res \in Responses({"missing", "null"}, Nodes("issues", ActivityItems, <<>>), page) :
         CollectorStep("issues", res,
                       Step(res, user_activity,
                            get_issue_activity_body(user_activity, cursor, res)),
                       "main_347")

\* Lines 347-352.
merge_issues_into_repo ==
    /\ pc = "main_347"
    /\ repo_activity' = merge_issues(repo_activity, ret)
    /\ ret' = EmptyDict
    /\ feedLog' = NoFeed
    /\ pc' = "get_pr_activity"
    /\ UNCHANGED <<orgIdx, all_users, repos, repoIdx, all_repo_activity,
                   branches, branchIdx, csv, crash>>
    /\ UNCHANGED <<purevars, rqvars, feedvars, page, served, supplied, reports>>
    /\ drained' = [drained EXCEPT !.repo = Append(@, <<"issues">>)]

\* get_pr_activity(org, repo), called on line 354: one pass of its loop.
get_pr_activity ==
    /\ pc = "get_pr_activity"
    /\ \E res \in Responses({"missing", "null"}, Nodes("prs", ActivityItems, <<>>), page) :
         CollectorStep("prs", res,
                       Step(res, user_activity,
                            get_pr_activity_body(user_activity, cursor, res)),
                       "main_355")

\* Lines 355-362: the merge of the pull requests, and the repository's
\* summary stored.
merge_prs_into_repo ==
    /\ pc = "main_355"
    /\ repo_activity' = merge_prs(repo_activity, ret)
    /\ all_repo_activity' =
          set_repo_activity(all_repo_activity, repos[repoIdx],
                            merge_prs(repo_activity, ret))
    /\ ret' = EmptyDict
    /\ feedLog' = NoFeed
    /\ pc' = "main_362"
    /\ UNCHANGED <<orgIdx, all_users, repos, repoIdx, branches, branchIdx, csv, crash>>
    /\ UNCHANGED <<purevars, rqvars, feedvars, page, served, supplied, reports>>
    /\ drained' = [org  |-> Append(drained.org, <<"repository", repos[repoIdx]>>),
                   repo |-> Append(drained.repo, <<"prs">>)]

\* Line 331: the repository loop's next turn. branches and repo_activity are
\* assigned before they are read again: they are cleared here.
next_repo ==
    /\ pc = "main_362"
    /\ IF repoIdx < Len(repos)
       THEN repoIdx' = repoIdx + 1 /\ pc' = "get_branches"
       ELSE repoIdx' = repoIdx /\ pc' = "save_to_csv"
    /\ branches' = <<>> /\ branchIdx' = 0 /\ repo_activity' = EmptyDict
    /\ supplied' = NothingSupplied
    /\ UNCHANGED <<orgIdx, all_users, repos, all_repo_activity, ret, csv, crash>>
    /\ UNCHANGED <<purevars, rqvars, feedvars, page, feedLog, served, reports>>
    /\ drained' = [drained EXCEPT !.repo = <<>>]

\* Line 364: save_to_csv(org, all_repo_activity, all_users), run at now.
save_report ==
    /\ pc = "save_to_csv"
    /\ \E now \in NowInstants :
         csv' = [now |-> now, sections |-> save_to_csv(all_repo_activity, all_users, now)]
    /\ reports' = Append(reports, ORG_NAMES[orgIdx])
    /\ pc' = "main_364"
    /\ UNCHANGED <<orgIdx, all_users, repos, repoIdx, all_repo_activity,
                   branches, branchIdx, repo_activity, ret, crash>>
    /\ UNCHANGED <<purevars, rqvars, feedvars, page, feedLog, served, supplied, drained>>

\* Line 325: the organization loop's next turn. Each organization has a file
\* of its own, and all_users, repos and all_repo_activity are assigned before
\* they are read again: they are cleared here.
next_org ==
    /\ pc = "main_364"
    /\ IF orgIdx < Len(ORG_NAMES)
       THEN orgIdx' = orgIdx + 1 /\ pc' = "get_all_org_members"
       ELSE orgIdx' = orgIdx /\ pc' = "done"
    /\ all_users' = {} /\ repos' = <<>> /\ repoIdx' = 0
    /\ all_repo_activity' = <<>> /\ csv' = <<>>
    /\ UNCHANGED <<branches, branchIdx, repo_activity, ret, crash>>
    /\ UNCHANGED <<purevars, rqvars, feedvars, page, feedLog, served, supplied, reports>>
    /\ drained' = NoDrained

Next ==
    \/ get_all_org_members
    \/ assign_all_users
    \/ get_all_repos
    \/ assign_repos
    \/ get_branches
    \/ assign_branches
    \/ get_commit_activity
    \/ merge_commits_into_repo
    \/ get_issue_activity
    \/ merge_issues_into_repo
    \/ get_pr_activity
    \/ merge_prs_into_repo
    \/ next_repo
    \/ save_report
    \/ next_org

Spec == Init /\ [][Next]_vars

\* Where main is: every step of main moves it.
position == <<pc, page>>

-----------------------------------------------------------------------------
(* later, lines 78-81, applied on its own to optional timestamps           *)

\* The timestamps later is given: absent, or one of three days.
LaterTimestamps == {NoTs} \cup Timestamps \cup {3}

LaterInit ==
    /\ RQIdle
    /\ MainIdle
    /\ lt \in {[LaterIdle EXCEPT !.pc = "args", !.a = x, !.b = y, !.c = z] :
                 x \in LaterTimestamps, y \in LaterTimestamps, z \in LaterTimestamps}

\* later(a, b) and later(b, a).
LaterPair ==
    /\ lt.pc = "args"
    /\ lt' = [lt EXCEPT !.pc = "pair",
                        !.ab = later(lt.a, lt.b), !.ba = later(lt.b, lt.a)]
    /\ UNCHANGED <<rqvars, mainvars, feedvars, logvars>>

\* later(b, c).
LaterOtherPair ==
    /\ lt.pc = "pair"
    /\ lt' = [lt EXCEPT !.pc = "pairs", !.bc = later(lt.b, lt.c)]
    /\ UNCHANGED <<rqvars, mainvars, feedvars, logvars>>

\* later(later(a, b), c).
LaterLeft ==
    /\ lt.pc = "pairs"
    /\ lt' = [lt EXCEPT !.pc = "left", !.ab_c = later(lt.ab, lt.c)]
    /\ UNCHANGED <<rqvars, mainvars, feedvars, logvars>>

\* later(a, later(b, c)).
LaterRight ==
    /\ lt.pc = "left"
    /\ lt' = [lt EXCEPT !.pc = "done", !.a_bc = later(lt.a, lt.bc)]
    /\ UNCHANGED <<rqvars, mainvars, feedvars, logvars>>

LaterNext == LaterPair \/ LaterOtherPair \/ LaterLeft \/ LaterRight

SpecLater == LaterInit /\ [][LaterNext]_vars

-----------------------------------------------------------------------------
(* Claims about run_query                                                  *)

NotForbidden(o) == o # "s403"

\* C1: a 403 does not consume an attempt: while run_query is in its loop,
\* the attempts used up are exactly the answers other than 403.
C1_ForbiddenKeepsBudget ==
    rq_pc = "loop" => attempt = Len(SelectSeq(rq_served, NotForbidden))

Last(s) == s[Len(s)]

\* C2: run_query never lets an exception out; what it returns is the data of
\* the 200 response it just got, or None with the attempt budget used up.
C2_NoExceptionEscapes ==
    /\ rq_pc # "raised"
    /\ rq_pc = "done" =>
         \/ /\ rq_served # <<>>
            /\ Last(rq_served) = "ok"
            /\ rq_result = "DATA"
         \/ /\ rq_served # <<>>
            /\ Last(rq_served) = "ok_null"
            /\ rq_result = None
         \/ /\ rq_result = None
            /\ Len(rq_served) = max_attempts

\* The last attempt got a status that is neither 200 nor 403: line 60 raised
\* inside the try block, and run_query returned None.
C2_Witness ==
    /\ rq_pc = "done"
    /\ rq_result = None
    /\ Len(rq_served) = DEFAULT_MAX_ATTEMPTS
    /\ Last(rq_served) = "other"

\* The durations run_query can sleep for, given max_attempts.
AllowedWaits ==
    {COOLDOWN}
      \cup {BACKOFF_BASE * (k + 1) : k \in 0..(max_attempts - 2)}
      \cup {BACKOFF_BASE * Pow2(k) : k \in 0..(max_attempts - 2)}

\* C3: run_query issues at most max_attempts requests, sleeps only for
\* durations of the fixed set, and terminates, whatever the server answers.
C3_BoundedAndTerminates ==
    /\ [](Len(rq_served) <= max_attempts)
    /\ [](\A i \in 1..Len(rq_waits) : rq_waits[i] \in AllowedWaits)
    /\ <>(rq_pc = "done")

\* The server answered 403 to every one of the three requests.
C3_Witness ==
    /\ rq_pc = "done"
    /\ rq_served = <<"s403", "s403", "s403">>
    /\ rq_waits = <<COOLDOWN, COOLDOWN, COOLDOWN>>
    /\ rq_result = None

-----------------------------------------------------------------------------
(* Claims about the collectors                                             *)

\* The line of main a collector returns to.
ReturnPc(feed) ==
    CASE feed = "members"  -> "main_327"
      [] feed = "repos"    -> "main_328"
      [] feed = "branches" -> "main_333"
      [] feed = "commits"  -> "main_339"
      [] feed = "issues"   -> "main_347"
      [] feed = "prs"      -> "main_355"
      [] OTHER             -> "none"

Returned == feedLog.feed # "none" /\ pc = ReturnPc(feedLog.feed)

\* The dict that holds, for each login with a record in the tally t, the
\* number of its records and the latest of their dates.
DictOf(t) == [l \in {x \in Logins : t[x].n > 0} |-> t[l]]

\* What the pages the latest collector call took in hold, as the value the
\* collector would return for them alone.
ItemsTakenIn ==
    CASE feedLog.feed = "members"               -> SetAsDict(feedLog.users)
      [] feedLog.feed \in {"repos", "branches"} -> feedLog.names
      [] OTHER                                  -> DictOf(feedLog.activity)

\* The same, with the default of get_branches for an empty list.
ItemsOrDefault ==
    IF feedLog.feed = "branches" /\ feedLog.names = <<>>
    THEN <<"main">> ELSE ItemsTakenIn

\* C4: a 200 answer whose top-level path (organization, repository) is
\* missing or null never makes a collector raise.
C4_MissingPathStops ==
    ~(pc = "crashed" /\ feedLog.shape \in {"missing", "null"})

\* C5 as claimed: after run_query returned None, the collector has returned,
\* with exactly the items of the pages before it, whatever the feed.
C5_FailureReturnsPagesSoFar ==
    feedLog.shape = "None" => Returned /\ ret = ItemsTakenIn

\* C5 as amended: after run_query returned None, the collector has returned
\* (no further request, no exception) with exactly the items of the pages
\* before it; get_branches returns ["main"] when those pages held no name.
C5_FailureReturnsPagesSoFarOrDefault ==
    feedLog.shape = "None" => Returned /\ ret = ItemsOrDefault

\* The commit feed failed after a page with two records of one user: they
\* are returned.
C5_Witness ==
    /\ feedLog.shape = "None"
    /\ feedLog.feed = "commits"
    /\ pc = "main_339"
    /\ \E l \in DOMAIN ret : ret[l].n = 2

\* C7: with every request answered in full, what a collector holds and what
\* it returns is fixed by the items of its pages together (their number and
\* latest date per login, the set of logins, the list of names), whatever
\* the pages they came in.
C7_PageSplitIndependent ==
    /\ (pc = "get_all_org_members" /\ page > 0) => c_users = feedLog.users
    /\ (pc \in {"get_all_repos", "get_branches"} /\ page > 0) =>
         c_names = feedLog.names
    /\ (pc \in {"get_commit_activity", "get_issue_activity", "get_pr_activity"}
          /\ page > 0) => user_activity = DictOf(feedLog.activity)
    /\ (Returned /\ feedLog.shape = "full") => ret = ItemsOrDefault

\* The issue feed returned three records of one user; a page holds at most
\* two, so they came in two pages at least.
C7_Witness ==
    /\ pc = "main_347"
    /\ feedLog.shape = "full"
    /\ \E l \in DOMAIN ret : ret[l].n = 3 /\ ret[l].last = 2

\* C8: a record without an attributed author never makes a collector raise.
C8_UnattributedSkipped ==
    ~(pc = "crashed" /\ crash = "TypeError: null author")

-----------------------------------------------------------------------------
(* Claims about the merge                                                  *)

\* The records of category c a collector holds or has just returned, not
\* yet merged into repo_activity.
Pending(c) ==
    IF pc = ReturnPc(c) THEN ret
    ELSE IF feedLog.feed = c /\ page > 0 THEN user_activity
    ELSE EmptyDict

CountOf(d, l) == IF l \in DOMAIN d THEN d[l].n ELSE 0

DateOf(d, l) == IF l \in DOMAIN d THEN d[l].last ELSE NoTs

InRepository ==
    pc \in {"get_commit_activity", "main_339", "get_issue_activity", "main_347",
            "get_pr_activity", "main_355", "main_362"}

MergedCount(c, l) ==
    LET r == Summary(repo_activity, l) IN
    CASE c = "commits" -> r.commits [] c = "issues" -> r.issues [] OTHER -> r.prs

MergedDate(c, l) ==
    LET r == Summary(repo_activity, l) IN
    CASE c = "commits" -> r.last_commit [] c = "issues" -> r.last_issue
      [] OTHER -> r.last_pr

\* C6: however the attributed records of a user and a category come in
\* (pages, branches), the merged counter and what is still to be merged add
\* up to their number, the later of the merged and the pending date is the
\* latest of their dates; in the summary stored for the repository the
\* counter is their number and the date the latest of their dates.
C6_CountsAndLatestDate ==
    InRepository =>
      /\ \A c \in Categories, l \in Logins :
           /\ MergedCount(c, l) + CountOf(Pending(c), l) = supplied[c][l].n
           /\ Max(MergedDate(c, l), DateOf(Pending(c), l)) = supplied[c][l].last
      /\ pc = "main_362" =>
           /\ all_repo_activity[Len(all_repo_activity)].activity = repo_activity
           /\ \A c \in Categories, l \in Logins :
                /\ MergedCount(c, l) = supplied[c][l].n
                /\ MergedDate(c, l) = supplied[c][l].last

\* A second branch's commit, the older one, is about to be merged into a
\* summary that has the user's commit of the first branch.
C6_Witness ==
    /\ pc = "main_339"
    /\ branchIdx = 2
    /\ \E l \in DOMAIN ret \cap DOMAIN repo_activity :
         /\ ret[l].n = 1 /\ ret[l].last = 1
         /\ repo_activity[l].commits = 1 /\ repo_activity[l].last_commit = 2

-----------------------------------------------------------------------------
(* Claims about the report                                                 *)

Written == pc = "main_364"

\* The latest date of a summary, NoTs when it has none.
OverallLast(d) ==
    LET dates == {d.last_commit, d.last_issue, d.last_pr} IN
    CHOOSE x \in dates : \A y \in dates : y <= x

\* C9: a user with no last activity is Inactive; any other is Active exactly
\* when the last activity is not before now minus THRESHOLD_DAYS days.
C9_StatusClassification ==
    Written =>
      \A i \in 1..Len(csv.sections) : \A j \in 1..Len(csv.sections[i].rows) :
         LET row == csv.sections[i].rows[j]
             d == Summary(all_repo_activity[i].activity, row.user)
             last == OverallLast(d)
         IN  IF last = NoTs
             THEN row.status = "Inactive"
             ELSE (row.status = "Active") <=>
                    (2 * last >= csv.now - 2 * THRESHOLD_DAYS)

\* A user whose last activity is the cutoff itself, to the instant, is
\* Active.
C9_Witness ==
    /\ Written
    /\ \E i \in 1..Len(csv.sections) : \E j \in 1..Len(csv.sections[i].rows) :
         LET row == csv.sections[i].rows[j] IN
         /\ row.last_activity # NA
         /\ 2 * row.last_activity = csv.now - 2 * THRESHOLD_DAYS
         /\ row.status = "Active"

\* C10: the file has one section per repository of the report, and each has
\* exactly one row per member of the roster, in the order of the logins; a
\* member with no activity in the repository has the all-zero row.
C10_OneRowPerMember ==
    Written =>
      /\ Len(csv.sections) = Len(all_repo_activity)
      /\ \A i \in 1..Len(csv.sections) :
           LET rows == csv.sections[i].rows
               activity == all_repo_activity[i].activity
           IN  /\ csv.sections[i].repo = all_repo_activity[i].repo
               /\ Len(rows) = Cardinality(all_users)
               /\ {rows[j].user : j \in 1..Len(rows)} = all_users
               /\ \A j, k \in 1..Len(rows) :
                    j < k => LexLess(rows[j].user, rows[k].user)
               /\ \A j \in 1..Len(rows) :
                    rows[j].user \notin DOMAIN activity =>
                      /\ rows[j].commits = 0
                      /\ rows[j].issues = 0
                      /\ rows[j].prs = 0
                      /\ rows[j].last_activity = NA
                      /\ rows[j].status = "Inactive"

\* A repository's section has the rows of "ab" and "b", in this order; the
\* first has no activity there, the second has.
C10_Witness ==
    /\ Written
    /\ \E i \in 1..Len(csv.sections) :
         LET rows == csv.sections[i].rows IN
         /\ Len(rows) = 2
         /\ rows[1].user = <<1, 2>> /\ rows[2].user = <<2>>
         /\ rows[1].commits + rows[1].issues + rows[1].prs = 0
         /\ rows[2].commits + rows[2].issues + rows[2].prs > 0

-----------------------------------------------------------------------------
(* Claims about the run as a whole and about single collectors             *)

\* C11: whatever the feeds answer, main never ends on an exception, and
\* when it is done it has written one report per organization of ORG_NAMES,
\* in their order.
C11_EveryOrganizationReported ==
    /\ pc # "crashed"
    /\ pc = "done" => reports = ORG_NAMES

\* C12: no name of a fork is in the list get_all_repos builds and returns,
\* nor in main's repos.
C12_NoForkListed ==
    /\ Range(c_names) \cap ForkNames = {}
    /\ pc = "main_328" => Range(ret) \cap ForkNames = {}
    /\ Range(repos) \cap ForkNames = {}

\* The organization has a fork, and get_all_repos returned the two source
\* repositories the server listed.
C12_Witness ==
    /\ pc = "main_328"
    /\ feedLog.shape = "full"
    /\ Range(ret) = RepoNames
    /\ \E r \in OrgRepositories : r.isFork

\* C13: get_branches never returns an empty list: ["main"] when no branch
\* name was collected, the collected names as they are otherwise.
C13_BranchFallback ==
    pc = "main_333" =>
      /\ ret # <<>>
      /\ feedLog.names = <<>> => ret = <<"main">>
      /\ feedLog.names # <<>> => ret = feedLog.names

\* The repository answered in full, with zero branches.
C13_Witness ==
    /\ pc = "main_333"
    /\ feedLog.shape = "full"
    /\ feedLog.names = <<>>
    /\ ret = <<"main">>

-----------------------------------------------------------------------------
(* Claims about later                                                      *)

\* The latest of the timestamps of S that are there, NoTs when none is.
LatestPresent(S) ==
    IF S \subseteq {NoTs} THEN NoTs
    ELSE CHOOSE x \in S \ {NoTs} : \A y \in S \ {NoTs} : y <= x

\* C14: later is an absence-tolerant maximum: absent for two absent
\* timestamps, the other one when one is absent, the same for the two
\* orders of its arguments and for the two groupings of three.
C14_LaterIsTolerantMaximum ==
    /\ lt.pc \in {"pair", "pairs", "left", "done"} =>
         /\ (lt.a = NoTs /\ lt.b = NoTs) => lt.ab = NoTs
         /\ lt.b = NoTs => lt.ab = lt.a
         /\ lt.a = NoTs => lt.ab = lt.b
         /\ lt.ab = lt.ba
         /\ lt.ab = LatestPresent({lt.a, lt.b})
    /\ lt.pc = "done" =>
         /\ lt.ab_c = lt.a_bc
         /\ lt.ab_c = LatestPresent({lt.a, lt.b, lt.c})

\* Three timestamps, the middle one absent and the first the latest.
C14_Witness ==
    /\ lt.pc = "done"
    /\ lt.a = 3 /\ lt.b = NoTs /\ lt.c = 1
    /\ lt.ab_c = 3 /\ lt.a_bc = 3

-----------------------------------------------------------------------------
(* Claims about the pagination loop                                        *)

CollectorPcs ==
    {"get_all_org_members", "get_all_repos", "get_branches",
     "get_commit_activity", "get_issue_activity", "get_pr_activity"}

\* The latest answer was a page in full that has a next page.
MorePages == feedLog.shape = "full" /\ feedLog.hasNext

\* C15: a collector goes round again exactly when the page it got is there
\* in full and has a next page, however many pages it has taken (no cap of
\* its own); it leaves its loop on the first page that has none and on the
\* first failed or absent page. Every pass is one more page of the feed, so
\* with a server that ends every feed within MaxPages pages the loop ends
\* within MaxPages passes, and a collector in its loop always has its next
\* pass to make.
C15_LoopObeysHasNext ==
    /\ []((pc \in CollectorPcs /\ page > 0) => (MorePages /\ page < MaxPages))
    /\ [](Returned => ~MorePages)
    /\ [](pc \in CollectorPcs => ENABLED Next)
    /\ [][(pc \in CollectorPcs) =>
            (IF MorePages' THEN pc' = pc /\ page' = page + 1
                           ELSE pc' \notin CollectorPcs /\ page' = 0)]_position

\* The roster's collector has taken a first page in and asks for the next.
C15_Witness ==
    /\ pc = "get_all_org_members"
    /\ page = 1
    /\ MorePages
    /\ c_users # {}

-----------------------------------------------------------------------------
(* Claims about the order of the feeds                                      *)

\* The commit feeds of the first k branches of bs, in their order.
CommitsOf(bs, k) == [i \in 1..k |-> <<"commits", bs[i]>>]

\* The repositories main is through with, in the order of repos.
Completed(k) == [i \in 1..k |-> <<"repository", repos[i]>>]

\* The feeds of the current repository main must have drained where it is.
RepoFeedsDue ==
    LET b == <<<<"branches">>>> IN
    CASE pc \in {"get_commit_activity", "main_339"} ->
            b \o CommitsOf(branches, branchIdx - 1)
      [] pc \in {"get_issue_activity", "main_347"} ->
            b \o CommitsOf(branches, Len(branches))
      [] pc \in {"get_pr_activity", "main_355"} ->
            b \o CommitsOf(branches, Len(branches)) \o <<<<"issues">>>>
      [] pc = "main_362" ->
            b \o CommitsOf(branches, Len(branches)) \o <<<<"issues">>, <<"prs">>>>
      [] OTHER -> <<>>

\* The feeds of the organization main must have drained where it is.
OrgFeedsDue ==
    LET mr == <<<<"members">>, <<"repos">>>> IN
    CASE pc \in {"get_all_org_members", "main_327", "done", "crashed", "idle"} -> <<>>
      [] pc \in {"get_all_repos", "main_328"} -> <<<<"members">>>>
      [] pc = "main_362" -> mr \o Completed(repoIdx)
      [] pc \in {"save_to_csv", "main_364"} -> mr \o Completed(Len(repos))
      [] OTHER -> mr \o Completed(repoIdx - 1)

\* The collector that is running, if one is, is the only one with a cursor,
\* pages taken or items collected.
OneFeedInProgress ==
    /\ pc \notin CollectorPcs => (page = 0 /\ cursor = NoCursor)
    /\ pc # "get_all_org_members" => c_users = {}
    /\ pc \notin {"get_all_repos", "get_branches"} => c_names = <<>>
    /\ pc \notin {"get_commit_activity", "get_issue_activity", "get_pr_activity"}
         => user_activity = EmptyDict

\* C16: in an organization main drains the roster, then the repository
\* list, then repository after repository in the order of the list: its
\* branches, the commit feed of each branch once in the order of the
\* branches, the issue feed once, the pull-request feed once; one feed at a
\* time.
C16_FeedsInOrder ==
    /\ drained.org = OrgFeedsDue
    /\ drained.repo = RepoFeedsDue
    /\ OneFeedInProgress

\* main is through with the second repository of an organization, one with
\* two branches.
C16_Witness ==
    /\ pc = "main_362"
    /\ repoIdx = 2
    /\ Len(branches) = 2
    /\ Len(drained.repo) = 5

-----------------------------------------------------------------------------
(* Claims about the cursor and the pacing                                   *)

\* C17: the first request of a collector carries no cursor; every later one
\* carries the endCursor of the page before it, the latest answer, as the
\* server gave it; the endCursor of a last page is carried by no request.
C17_CursorProtocol ==
    /\ (pc \in CollectorPcs /\ page = 0) => cursor = NoCursor
    /\ (pc \in CollectorPcs /\ page > 0) =>
         /\ feedLog.shape = "full"
         /\ cursor = feedLog.endCursor
         /\ cursor \in Cursors
    /\ cursor # LastCursor

\* The commit collector is about to ask for its second page, with the
\* cursor c2 the first page gave it.
C17_Witness ==
    /\ pc = "get_commit_activity"
    /\ page = 1
    /\ feedLog.endCursor = "c2"
    /\ cursor = "c2"

\* C18 as claimed: main never goes on to a request after a page fetched in
\* full without the RATE_DELAY sleep in between, be the request the feed's
\* next or the first of the next feed.
C18_DelayAfterEveryPage ==
    [][(feedLog.shape = "full" /\ pc' \in CollectorPcs)
         => feedLog.slept = RATE_DELAY]_position

\* C18 as amended: a collector sleeps RATE_DELAY after every page that has a
\* next page, before it asks for that page; it does not sleep after the last
\* page of a feed nor after a failed request, so the first request of the
\* next feed follows without it.
C18_DelayBetweenPages ==
    /\ (pc \in CollectorPcs /\ page > 0) => feedLog.slept = RATE_DELAY
    /\ Returned => feedLog.slept = 0

\* The roster came in full on its last page: no sleep, and main goes on to
\* the first request for the repositories.
C18_Witness ==
    /\ pc = "main_327"
    /\ feedLog.shape = "full"
    /\ feedLog.slept = 0
    /\ DOMAIN ret # {}

-----------------------------------------------------------------------------
(* Claims about the summaries                                              *)

\* The summary d has nothing but what the category merged at pc gave it.
CreatedBy(d) ==
    CASE pc = "main_339" ->
            d = [NewSummary EXCEPT !.commits = d.commits, !.last_commit = d.last_commit]
      [] pc = "main_347" ->
            d = [NewSummary EXCEPT !.issues = d.issues, !.last_issue = d.last_issue]
      [] pc = "main_355" ->
            d = [NewSummary EXCEPT !.prs = d.prs, !.last_pr = d.last_pr]
      [] OTHER -> FALSE

\* The summary new has at least the counters and the dates of old.
NotLessThan(new, old) ==
    /\ new.commits >= old.commits
    /\ new.issues >= old.issues
    /\ new.prs >= old.prs
    /\ new.last_commit >= old.last_commit
    /\ new.last_issue >= old.last_issue
    /\ new.last_pr >= old.last_pr

\* C19: from one step to the next within a repository, no summary is
\* removed, no counter and no date of a summary decreases (an absent date
\* is before every date), and a summary that is new starts from zero
\* counters and absent dates: it has only what the merge that made it added.
C19_SummariesMonotone ==
    [][(InRepository /\ InRepository') =>
         /\ DOMAIN repo_activity \subseteq DOMAIN repo_activity'
         /\ \A l \in DOMAIN repo_activity :
              NotLessThan(repo_activity'[l], repo_activity[l])
         /\ \A l \in DOMAIN repo_activity' \ DOMAIN repo_activity :
              CreatedBy(repo_activity'[l])]_position

\* After the issues were merged: one user has a commit and an issue, the
\* other a summary the issue merge made.
C19_Witness ==
    /\ pc = "get_pr_activity"
    /\ DOMAIN repo_activity = Logins
    /\ \E l, m \in Logins :
         /\ repo_activity[l].commits = 1 /\ repo_activity[l].issues = 1
         /\ repo_activity[m].commits = 0 /\ repo_activity[m].issues = 1

\* The users with a row in section i of the file.
RowUsers(i) ==
    {csv.sections[i].rows[j].user : j \in 1..Len(csv.sections[i].rows)}

\* The users with a summary for repository i who are not in the roster.
Outsiders(i) == DOMAIN all_repo_activity[i].activity \ all_users

\* C20 as claimed: every user with a summary in a repository handed to
\* save_to_csv has a row in the repository's section, member or not.
C20_ContributorsReported ==
    Written =>
      \A i \in 1..Len(csv.sections) :
         DOMAIN all_repo_activity[i].activity \subseteq RowUsers(i)

\* C20 as amended: a user with attributed records in a repository has a
\* summary in what is handed to save_to_csv, member of the roster or not;
\* the section written for the repository has the rows of the roster's
\* members and no other: a user who is not in the roster has none.
C20_ContributorsKeptNotReported ==
    /\ pc = "main_362" =>
         \A c \in Categories, l \in Logins :
            supplied[c][l].n > 0 =>
               l \in DOMAIN all_repo_activity[Len(all_repo_activity)].activity
    /\ Written =>
         \A i \in 1..Len(csv.sections) :
            /\ RowUsers(i) = all_users
            /\ Outsiders(i) \cap RowUsers(i) = {}

\* A file was written for a roster of one member and a repository in which
\* another user has activity: that user has a summary and no row.
C20_Witness ==
    /\ Written
    /\ all_users # {}
    /\ \E i \in 1..Len(csv.sections) :
         /\ Outsiders(i) # {}
         /\ Outsiders(i) \cap RowUsers(i) = {}

=============================================================================
